---- MODULE Spec2Model ----
(***************************************************************************)
(* Model of the demographic core of CostOfDisease, code/get_pop_data.py:   *)
(*   total_deaths       the cohort-component projector (lines 252-295)     *)
(*   excess_death_dist  the calibration objective      (lines 137-160)     *)
(*   disease_pop        calibration, phase-in schedule and the shocked     *)
(*                      projection                     (lines 163-249)     *)
(*                                                                         *)
(* Real numbers are exact rationals <<n, d>> in lowest terms with d > 0,   *)
(* so floating-point rounding is abstracted away.  NumPy arrays are        *)
(* sequences; element-wise operators follow NumPy's broadcasting rules,    *)
(* including the ValueError and IndexError they raise.                     *)
(***************************************************************************)
EXTENDS Integers, Sequences, FiniteSets

(***************************************************************************)
(* Bounds of the model                                                     *)
(***************************************************************************)
\* largest number of age groups (length of one rate row)
MaxAges == 2
\* largest number of stored rows of a rate schedule
MaxRows == 2
\* largest horizon passed to total_deaths by a direct caller
MaxYears == 3
\* the horizon baseline_pop and disease_pop pass (num_years=200 in the source),
\* scaled down; it exceeds the five phase-in years as 200 does
HorizonYears == 6
\* candidate scale factors are the multiples of 1/ScaleDen from -1/ScaleDen
\* to MaxScale
ScaleDen == 2
MaxScale == 3

(***************************************************************************)
(* Exact rational arithmetic                                               *)
(***************************************************************************)
Abs(n) == IF n < 0 THEN -n ELSE n

RECURSIVE GCD(_, _)
GCD(a, b) == IF b = 0 THEN a ELSE GCD(b, a % b)

\* the rational n/d (d # 0) in lowest terms with a positive denominator
R(n, d) ==
    LET s == IF d < 0 THEN -1 ELSE 1
        g == GCD(Abs(n), Abs(d))
    IN  <<(s * n) \div g, (s * d) \div g>>

RInt(k) == <<k, 1>>
RZero == <<0, 1>>
ROne == <<1, 1>>
RAdd(x, y) == R(x[1] * y[2] + y[1] * x[2], x[2] * y[2])
RSub(x, y) == R(x[1] * y[2] - y[1] * x[2], x[2] * y[2])
RMul(x, y) == R(x[1] * y[1], x[2] * y[2])
RLe(x, y) == x[1] * y[2] <= y[1] * x[2]
RLt(x, y) == x[1] * y[2] < y[1] * x[2]
\* np.minimum on scalars
RMin(x, y) == IF RLe(x, y) THEN x ELSE y

(***************************************************************************)
(* NumPy one-dimensional arrays                                            *)
(***************************************************************************)
\* shape of the broadcast of shapes (n,) and (m,); -1 when NumPy raises
\* "operands could not be broadcast together"
BShape(n, m) ==
    IF n = m THEN n
    ELSE IF n = 1 THEN m
    ELSE IF m = 1 THEN n
    ELSE -1

\* element k of u when u is broadcast to a longer shape
Elem(u, k) == IF Len(u) = 1 THEN u[1] ELSE u[k]

\* u * v and u + v, for shapes that broadcast
VMul(u, v) == [k \in 1..BShape(Len(u), Len(v)) |-> RMul(Elem(u, k), Elem(v, k))]
VAdd(u, v) == [k \in 1..BShape(Len(u), Len(v)) |-> RAdd(Elem(u, k), Elem(v, k))]
\* 1 - v
OneMinus(v) == [k \in 1..Len(v) |-> RSub(ROne, v[k])]
\* VMin1 as it would be without the ceiling
VNoCeiling(v) == v

\* np.minimum(v, 1.0)
VMin1(v) == [k \in 1..Len(v) |-> RMin(v[k], ROne)]
\* v * c for a scalar c
VScale(v, c) == [k \in 1..Len(v) |-> RMul(v[k], c)]

\* whether a value of shape (n,) can be stored into a slice of shape (t,)
CanAssign(t, n) == n = t \/ n = 1

\* u[:-1]
AllButLast(u) == IF Len(u) = 0 THEN <<>> ELSE SubSeq(u, 1, Len(u) - 1)

RECURSIVE VSum(_)
\* np.sum(v), v.sum()
VSum(v) == IF Len(v) = 0 THEN RZero ELSE RAdd(v[1], VSum(Tail(v)))

\* np.zeros(n), np.zeros_like
Zeros(n) == [k \in 1..n |-> RZero]

\* m[idx] for a Python index idx (0-based, -1 is the last row)
Row(m, idx) == IF idx < 0 THEN m[Len(m) + 1 + idx] ELSE m[idx + 1]
\* whether m[idx] is inside the array
InRange(m, idx) == IF idx < 0 THEN -idx <= Len(m) ELSE idx < Len(m)

(***************************************************************************)
(* State                                                                   *)
(***************************************************************************)
VARIABLES
    \* the caller's arrays (pop_dist stands for its row 0, the only row read)
    pop_dist, fert_rates, mort_rates, infmort_rates, imm_rates,
    \* disease_pop: argument, locals and position
    excess_deaths, scale_factor, i, alt_mort_rates, dp_infmort_rates,
    dp_fert_rates, dp_imm_rates, dpc,
    \* total_deaths: arguments, locals and position
    td_fert, td_mort, td_infmort, td_imm, num_years, initial_years,
    deaths, pop_t, y, pc, raised,
    \* history of the running total_deaths call: the population vector of
    \* every year reached, and the schedule rows each computed year read
    pops, used,
    \* what the calls handed back to their callers
    base_deaths, shock_deaths

callerVars == <<pop_dist, fert_rates, mort_rates, infmort_rates, imm_rates>>
dpVars == <<excess_deaths, scale_factor, i, alt_mort_rates, dp_infmort_rates,
            dp_fert_rates, dp_imm_rates, dpc>>
tdArgs == <<td_fert, td_mort, td_infmort, td_imm, num_years>>
tdLocals == <<initial_years, deaths, pop_t, y, pc, raised, pops, used>>
outVars == <<base_deaths, shock_deaths>>
vars == <<callerVars, dpVars, tdArgs, tdLocals, outVars>>

(***************************************************************************)
(* total_deaths: one year of the cohort recursion                          *)
(***************************************************************************)
\* pop_t * mort_rates[y, :]
DeathsRow(p, mrow) == VMul(p, mrow)

\* pop_t[:-1] * (1 - mort_rates[y, :]) + pop_t * imm_rates[y, :]
Survivors(p, mrow, irow) ==
    VAdd(VMul(AllButLast(p), OneMinus(mrow)), VMul(p, irow))

\* Newborns as it would be if the infant-mortality rate were subtracted
\* from the births as a head count
NewbornsLessRate(p, frow, inf) == RSub(VSum(VMul(p, frow)), inf)

\* Newborns as it would be if infant mortality were not applied
NewbornsAllSurvive(p, frow, inf) == VSum(VMul(p, frow))

\* (pop_t * fert_rates[y, :]).sum() * (1 - infmort_rates[y])
Newborns(p, frow, inf) == RMul(VSum(VMul(p, frow)), RSub(ROne, inf))

\* the value stored by  target[...] = v  into a slice of shape (t,)
Store(t, v) == [k \in 1..t |-> Elem(v, k)]

NoError == [exc |-> "none", line |-> 0]
Failure(kind, ln, d) == [raised |-> [exc |-> kind, line |-> ln], deaths |-> d, pop_tp1 |-> <<>>]

\* The body of the year loop with the schedule rows read at the Python
\* indices rm, rf, rinf, ri; la, lb, lc are the source lines of its three
\* assignments (276, 278, 281 in the first loop; 285, 287, 290 in the second).
\* Expressions are evaluated in Python's order, so the first exception wins.
YearBody(rm, rf, rinf, ri, la, lb, lc) ==
    LET n == Len(pop_t)
        mrow == Row(td_mort, rm)
        sd == BShape(n, Len(mrow))
    IN
    IF sd = -1 THEN Failure("ValueError", la, deaths)
    ELSE IF y >= Len(deaths) THEN Failure("IndexError", la, deaths)
    ELSE IF ~CanAssign(Len(deaths[y + 1]), sd) THEN Failure("ValueError", la, deaths)
    ELSE
    LET d2 == [deaths EXCEPT ![y + 1] = Store(Len(deaths[y + 1]), DeathsRow(pop_t, mrow))]
        s1 == BShape(n - 1, Len(mrow))
    IN
    IF s1 = -1 THEN Failure("ValueError", lb, d2)
    ELSE IF ~InRange(td_imm, ri) THEN Failure("IndexError", lb, d2)
    ELSE
    LET irow == Row(td_imm, ri)
        s2 == BShape(n, Len(irow))
        s3 == IF s2 = -1 THEN -1 ELSE BShape(s1, s2)
    IN
    IF s3 = -1 \/ ~CanAssign(n - 1, s3) THEN Failure("ValueError", lb, d2)
    ELSE IF ~InRange(td_fert, rf) THEN Failure("IndexError", lc, d2)
    ELSE IF BShape(n, Len(Row(td_fert, rf))) = -1 THEN Failure("ValueError", lc, d2)
    ELSE IF ~InRange(td_infmort, rinf) THEN Failure("IndexError", lc, d2)
    ELSE
    [raised |-> NoError,
     deaths |-> d2,
     pop_tp1 |-> <<Newborns(pop_t, Row(td_fert, rf), Row(td_infmort, rinf))>>
                 \o Store(n - 1, Survivors(pop_t, mrow, irow))]

\* the non-negative row number a Python index denotes
RowNo(m, idx) == IF idx < 0 THEN Len(m) + idx ELSE idx

\* the state after one pass through the loop body
TakeYear(regime, rm, rf, rinf, ri, la, lb, lc) ==
    LET r == YearBody(rm, rf, rinf, ri, la, lb, lc) IN
    /\ deaths' = r.deaths
    /\ raised' = r.raised
    /\ IF r.raised = NoError
       THEN /\ pop_t' = r.pop_tp1
            /\ y' = y + 1
            /\ pc' = "loop"
            /\ pops' = Append(pops, r.pop_tp1)
            /\ used' = Append(used, [regime |-> regime,
                                     mort |-> RowNo(td_mort, rm),
                                     fert |-> RowNo(td_fert, rf),
                                     infmort |-> RowNo(td_infmort, rinf),
                                     imm |-> RowNo(td_imm, ri)])
       ELSE /\ pc' = "raised"
            /\ UNCHANGED <<pop_t, y, pops, used>>

\* lines 270-274: initial_years, the zero death matrix, pop_t
TD_Enter ==
    /\ pc = "entry"
    /\ initial_years' = Len(td_mort)
    /\ deaths' = [r \in 1..num_years |-> Zeros(Len(td_mort[1]))]
    /\ pop_t' = pop_dist
    /\ y' = 0
    /\ pops' = <<pop_dist>>
    /\ used' = <<>>
    /\ pc' = "loop"
    /\ UNCHANGED <<raised, callerVars, dpVars, tdArgs, outVars>>

\* lines 275-282: for y in range(initial_years), rows read at index y
TD_Phased ==
    /\ pc = "loop"
    /\ y < initial_years
    /\ TakeYear("PHASED", y, y, y, y, 276, 278, 281)
    /\ UNCHANGED <<initial_years, callerVars, dpVars, tdArgs, outVars>>

\* TD_Steady as it would be if the tail years read the first stored row
TD_SteadyFirstRow ==
    /\ pc = "loop"
    /\ y >= initial_years
    /\ y < num_years
    /\ TakeYear("STEADY", 0, 0, 0, 0, 285, 287, 290)
    /\ UNCHANGED <<initial_years, callerVars, dpVars, tdArgs, outVars>>

\* lines 284-293: for yy in range(initial_years, num_years), rows read at -1
TD_Steady ==
    /\ pc = "loop"
    /\ y >= initial_years
    /\ y < num_years
    /\ TakeYear("STEADY", -1, -1, -1, -1, 285, 287, 290)
    /\ UNCHANGED <<initial_years, callerVars, dpVars, tdArgs, outVars>>

\* line 295: return deaths
TD_Return ==
    /\ pc = "loop"
    /\ y >= initial_years
    /\ y >= num_years
    /\ pc' = "returned"
    /\ UNCHANGED <<initial_years, deaths, pop_t, y, raised, pops, used,
                   callerVars, dpVars, tdArgs, outVars>>

TotalDeaths == TD_Enter \/ TD_Phased \/ TD_Steady \/ TD_Return

(***************************************************************************)
(* Inputs.  A schedule is picked from a small family per array: its rows   *)
(* differ from one another and across ages, so the row a year reads shows  *)
(* in the numbers.  The families hold well-formed inputs (populations      *)
(* >= 0, mortality in [0,1]) and malformed ones (a negative head count, a  *)
(* rate above 1, a fertility array with one age group too many).           *)
(***************************************************************************)
MortCycle == <<R(1, 2), RZero, ROne>>
FertCycle == <<ROne, R(1, 2)>>
ImmCycle == <<R(1, 4), R(-1, 4)>>
InfmortCycle == <<R(1, 2), R(1, 4)>>

Sched(cyc, k, L, A) ==
    [r \in 1..L |-> [a \in 1..A |-> cyc[((k + r + a) % Len(cyc)) + 1]]]
ConstSched(v, L, A) == [r \in 1..L |-> [a \in 1..A |-> v]]

MortSchedules(L, A) ==
    {ConstSched(RZero, L, A), ConstSched(R(3, 2), L, A)}
        \cup {Sched(MortCycle, k, L, A) : k \in 0..1}
FertSchedules(L, A) ==
    {Sched(FertCycle, 0, L, A), Sched(FertCycle, 0, L, A + 1)}
ImmSchedules(L, A) == {ConstSched(RZero, L, A), Sched(ImmCycle, 0, L, A)}
InfmortSchedules(L) ==
    {[r \in 1..L |-> RZero], [r \in 1..L |-> InfmortCycle[(r % 2) + 1]]}
PopDists(A) ==
    {[a \in 1..A |-> RInt(a + 1)],
     [a \in 1..A |-> IF a = A THEN RZero ELSE RInt(3)],
     [a \in 1..A |-> IF a = 1 THEN RInt(-1) ELSE RInt(1)]}

\* no disease_pop call is in progress
DPIdle ==
    /\ excess_deaths = RZero
    /\ scale_factor = RZero
    /\ i = 0
    /\ alt_mort_rates = <<>>
    /\ dp_infmort_rates = <<>>
    /\ dp_fert_rates = <<>>
    /\ dp_imm_rates = <<>>

\* a call total_deaths(pop_dist, fert, mort, infmort, imm, num_years=H) at
\* its first line
TDEntry(fert, mort, infmort, imm, H) ==
    /\ td_fert = fert
    /\ td_mort = mort
    /\ td_infmort = infmort
    /\ td_imm = imm
    /\ num_years = H
    /\ initial_years = 0
    /\ deaths = <<>>
    /\ pop_t = <<>>
    /\ y = 0
    /\ pc = "entry"
    /\ raised = NoError
    /\ pops = <<>>
    /\ used = <<>>

\* a direct caller invokes total_deaths on arrays of its own
Init ==
    \E A \in 1..MaxAges, Lm \in 1..MaxRows, Lf \in 1..MaxRows,
       Linf \in 1..MaxRows, Li \in 1..MaxRows, H \in 1..MaxYears :
        /\ pop_dist \in PopDists(A)
        /\ mort_rates \in MortSchedules(Lm, A)
        /\ fert_rates \in FertSchedules(Lf, A)
        /\ infmort_rates \in InfmortSchedules(Linf)
        /\ imm_rates \in ImmSchedules(Li, A)
        /\ TDEntry(fert_rates, mort_rates, infmort_rates, imm_rates, H)
        /\ DPIdle
        /\ dpc = "off"
        /\ base_deaths = <<>>
        /\ shock_deaths = <<>>

Next == TotalDeaths

Spec == Init /\ [][Next]_vars

(***************************************************************************)
(* excess_death_dist and the minimisation in disease_pop                   *)
(***************************************************************************)
\* lines 154-157: new_deaths - current_deaths under the scaled, clamped rates
PredictedExcess(scale, pop, mort) ==
    LET current_deaths == VSum(VMul(pop, mort))
        alt == VMin1(VScale(mort, RAdd(ROne, scale)))
        new_deaths == VSum(VMul(pop, alt))
    IN  RSub(new_deaths, current_deaths)

\* excess_death_dist as it would be if the target were not subtracted
ExcessDeathDistNoTarget(scale, pop, mort, target) ==
    RMul(PredictedExcess(scale, pop, mort), PredictedExcess(scale, pop, mort))

\* excess_death_dist as it would be if current deaths were not subtracted
ExcessDeathDistNoCurrent(scale, pop, mort, target) ==
    LET new_deaths == VSum(VMul(pop, VMin1(VScale(mort, RAdd(ROne, scale)))))
    IN  RMul(RSub(new_deaths, target), RSub(new_deaths, target))

\* lines 154-160: (predicted excess deaths - excess_deaths) ** 2
ExcessDeathDist(scale, pop, mort, target) ==
    LET d == RSub(PredictedExcess(scale, pop, mort), target)
    IN  RMul(d, d)

\* the scale factors the minimiser may return
ScaleGrid == {R(k, ScaleDen) : k \in (-1)..(MaxScale * ScaleDen)}

\* line 195: scale_factor_guess = 0.01
ScaleFactorGuess == R(1, 100)

\* the objective has zero slope at the guess: no age with people and a
\* positive rate is below the clamp there
FlatAtGuess(pop, mort) ==
    \A a \in 1..Len(pop) :
        \/ RMul(pop[a], mort[a]) = RZero
        \/ RLe(ROne, RMul(mort[a], RAdd(ROne, ScaleFactorGuess)))

\* Minimizers as it would be if the search never left its initial guess
MinimizersAtGuess(pop, mort, target) == {ScaleFactorGuess}

\* scipy.optimize.minimize(excess_death_dist, scale_factor_guess,
\* args=(pop, mort, target)), by its contract: res.x[0] minimises the
\* objective.  Where the slope at the guess is zero the search stops at once
\* and the guess comes back.  Every local minimum of this objective is a
\* global one; where the minimum is a flat stretch (a saturated clamp) any
\* point of it may come back.
Minimizers(pop, mort, target) ==
    LET dist == {<<sf, ExcessDeathDist(sf, pop, mort, target)>> : sf \in ScaleGrid}
        zero == {p \in dist : p[2] = RZero}
        best == IF zero # {} THEN zero
                ELSE {p \in dist : \A q \in dist : RLe(p[2], q[2])}
    IN  IF FlatAtGuess(pop, mort) THEN {ScaleFactorGuess} ELSE {p[1] : p \in best}

\* the largest excess any scale factor >= 0 can produce: every age with a
\* positive rate clamped to 1.0
MaxExcess(pop, mort) ==
    VSum([a \in 1..Len(pop) |->
            IF mort[a] = RZero THEN RZero ELSE RMul(pop[a], RSub(ROne, mort[a]))])

\* targets whose exact minimiser is a candidate: the objective reaches 0 on
\* the grid, or the target is out of reach and the grid saturates the clamp
ExactOnGrid(pop, mort, target) ==
    LET reach == {PredictedExcess(sf, pop, mort) : sf \in ScaleGrid}
    IN  \/ target \in reach
        \/ /\ RLt(MaxExcess(pop, mort), target)
           /\ MaxExcess(pop, mort) \in reach

TargetValues ==
    {RZero, R(1, 2), R(3, 4), ROne, R(3, 2), RInt(2), RInt(4)}
\* the targets a caller passes: every attainable one, and the least one
\* that is out of reach
Targets(pop, mort) ==
    LET ok == {e \in TargetValues : ExactOnGrid(pop, mort, e)}
        over == {e \in ok : RLt(MaxExcess(pop, mort), e)}
    IN  (ok \ over) \cup {e \in over : \A f \in over : RLe(e, f)}

(***************************************************************************)
(* disease_pop                                                             *)
(***************************************************************************)
\* line 204: num_years = 5, the phase-in length
PhaseYears == 5

\* p.S + p.E, the number of model ages of the caller's parameters, which is
\* the age dimension of its arrays
SE == Len(pop_dist)

\* PhaseFactor as it would be if the ramp started at 0 (i in place of i + 1)
PhaseFactorFromZero(sf, idx) ==
    RAdd(ROne, RMul(RMul(sf, RInt(idx)), R(1, PhaseYears)))

\* PhaseFactor as it would be if (i + 1) / num_years were an integer division
PhaseFactorFloorDiv(sf, idx) ==
    RAdd(ROne, RMul(sf, RInt((idx + 1) \div PhaseYears)))

\* lines 209, 212: 1 + scale_factor * (i + 1) / num_years
PhaseFactor(sf, idx) ==
    RAdd(ROne, RMul(RMul(sf, RInt(idx + 1)), R(1, PhaseYears)))

\* YearZero as it would be if the last stored row were taken
YearLast(m) == m[Len(m)]

\* lines 217, 219: fert_rates[0, :], imm_rates[0, :]
YearZero(m) == m[1]

\* np.tile(row.reshape(1, p.S + p.E), (num_years, 1))
Tile(row, n) == [r \in 1..n |-> row]

\* a total_deaths call is over: its arguments and locals are gone
TD_Gone ==
    /\ td_fert' = <<>>
    /\ td_mort' = <<>>
    /\ td_infmort' = <<>>
    /\ td_imm' = <<>>
    /\ num_years' = 0
    /\ initial_years' = 0
    /\ deaths' = <<>>
    /\ pop_t' = <<>>
    /\ y' = 0
    /\ pc' = "idle"
    /\ raised' = NoError
    /\ pops' = <<>>
    /\ used' = <<>>

\* line 97: baseline_pop receives the death matrix of the baseline call, or
\* the call raised and a caller that goes on has none
BP_Deaths ==
    /\ dpc = "baseline"
    /\ pc \in {"returned", "raised"}
    /\ base_deaths' = IF pc = "returned" THEN deaths ELSE <<>>
    /\ dpc' = "idle"
    /\ TD_Gone
    /\ UNCHANGED <<callerVars, excess_deaths, scale_factor, i, alt_mort_rates,
                   dp_infmort_rates, dp_fert_rates, dp_imm_rates, shock_deaths>>

\* lines 194-206: disease_pop is called with a target, finds the scale
\* factor and allocates the zero arrays; infmort_rates now names the new
\* zero array, not the caller's
DP_Minimize ==
    /\ dpc = "idle"
    /\ \E e \in Targets(pop_dist, mort_rates[1]) :
        /\ excess_deaths' = e
        /\ scale_factor' \in Minimizers(pop_dist, mort_rates[1], e)
    /\ i' = 0
    /\ alt_mort_rates' = [r \in 1..PhaseYears |-> Zeros(SE)]
    /\ dp_infmort_rates' = Zeros(PhaseYears)
    /\ dpc' = "phase"
    /\ UNCHANGED <<callerVars, dp_fert_rates, dp_imm_rates, tdArgs, tdLocals, outVars>>

\* lines 207-213: one pass of  for i in range(num_years)
DP_Phase ==
    /\ dpc = "phase"
    /\ i < PhaseYears
    /\ alt_mort_rates' =
        [alt_mort_rates EXCEPT ![i + 1] =
            Store(SE, VMin1(VScale(mort_rates[1], PhaseFactor(scale_factor, i))))]
    /\ dp_infmort_rates' =
        [dp_infmort_rates EXCEPT ![i + 1] =
            RMin(RMul(dp_infmort_rates[1], PhaseFactor(scale_factor, i)), ROne)]
    /\ i' = i + 1
    /\ UNCHANGED <<callerVars, excess_deaths, scale_factor, dp_fert_rates,
                   dp_imm_rates, dpc, tdArgs, tdLocals, outVars>>

\* lines 215-228: tile fertility and immigration, call total_deaths
DP_Project ==
    /\ dpc = "phase"
    /\ i = PhaseYears
    /\ dp_fert_rates' = Tile(YearZero(fert_rates), PhaseYears)
    /\ dp_imm_rates' = Tile(YearZero(imm_rates), PhaseYears)
    /\ td_fert' = dp_fert_rates'
    /\ td_mort' = alt_mort_rates
    /\ td_infmort' = dp_infmort_rates
    /\ td_imm' = dp_imm_rates'
    /\ num_years' = HorizonYears
    /\ initial_years' = 0
    /\ deaths' = <<>>
    /\ pop_t' = <<>>
    /\ y' = 0
    /\ pc' = "entry"
    /\ raised' = NoError
    /\ pops' = <<>>
    /\ used' = <<>>
    /\ dpc' = "projecting"
    /\ UNCHANGED <<callerVars, excess_deaths, scale_factor, i, alt_mort_rates,
                   dp_infmort_rates, outVars>>

\* DP_Return as it would be if the shocked rates had been written into the
\* caller's mort_rates array in place
DP_ReturnRatesWritten ==
    /\ dpc = "projecting"
    /\ pc = "returned"
    /\ shock_deaths' = deaths
    /\ dpc' = "returned"
    /\ mort_rates' = <<alt_mort_rates[PhaseYears]>>
    /\ UNCHANGED <<pop_dist, fert_rates, infmort_rates, imm_rates,
                   excess_deaths, scale_factor, i, alt_mort_rates,
                   dp_infmort_rates, dp_fert_rates, dp_imm_rates,
                   tdArgs, tdLocals, base_deaths>>

\* lines 221-249: the death matrix comes back, the population objects are
\* built by ogcore's get_pop_objs (not modelled) and disease_pop returns
DP_Return ==
    /\ dpc = "projecting"
    /\ pc = "returned"
    /\ shock_deaths' = deaths
    /\ dpc' = "returned"
    /\ UNCHANGED <<callerVars, excess_deaths, scale_factor, i, alt_mort_rates,
                   dp_infmort_rates, dp_fert_rates, dp_imm_rates,
                   tdArgs, tdLocals, base_deaths>>

\* line 221: total_deaths raised, and so does disease_pop
DP_Raise ==
    /\ dpc = "projecting"
    /\ pc = "raised"
    /\ dpc' = "raised"
    /\ UNCHANGED <<callerVars, excess_deaths, scale_factor, i, alt_mort_rates,
                   dp_infmort_rates, dp_fert_rates, dp_imm_rates,
                   tdArgs, tdLocals, outVars>>

\* main.py lines 82-134: the caller goes on to its next scenario (also one
\* that goes on after a failed call) and calls disease_pop again on the same
\* baseline arrays; the locals of the call that ended are gone
DP_Again ==
    /\ dpc \in {"returned", "raised"}
    /\ dpc' = "idle"
    /\ excess_deaths' = RZero
    /\ scale_factor' = RZero
    /\ i' = 0
    /\ alt_mort_rates' = <<>>
    /\ dp_infmort_rates' = <<>>
    /\ dp_fert_rates' = <<>>
    /\ dp_imm_rates' = <<>>
    /\ TD_Gone
    /\ UNCHANGED <<callerVars, outVars>>

DiseasePop ==
    DP_Minimize \/ DP_Phase \/ DP_Project \/ DP_Return \/ DP_Raise \/ DP_Again

\* well-formed baseline data: one stored mortality and infant-mortality row,
\* MaxRows fertility and immigration rows that differ from year to year
DiseaseRates == {RZero, R(1, 4), R(1, 2), ROne}
DiseaseHeads == {ROne, RInt(2)}
\* the oldest age group may be empty
DiseaseOldest == {RZero, RInt(2)}

\* baseline_pop is at its call of total_deaths (line 97) on the baseline
\* arrays; disease_pop is then called on the same arrays
InitDisease ==
    \E A \in 1..MaxAges :
        /\ pop_dist \in {p \in [1..A -> DiseaseHeads \cup DiseaseOldest] :
                            /\ p[A] \in DiseaseOldest
                            /\ \A a \in 1..(A - 1) : p[a] \in DiseaseHeads}
        /\ mort_rates \in {<<row>> : row \in [1..A -> DiseaseRates]}
        /\ fert_rates = Sched(FertCycle, 0, MaxRows, A)
        /\ infmort_rates = <<R(1, 4)>>
        /\ imm_rates = Sched(ImmCycle, 0, MaxRows, A)
        /\ TDEntry(fert_rates, mort_rates, infmort_rates, imm_rates, HorizonYears)
        /\ DPIdle
        /\ dpc = "baseline"
        /\ base_deaths = <<>>
        /\ shock_deaths = <<>>

NextDisease == BP_Deaths \/ DiseasePop \/ TotalDeaths

SpecDisease == InitDisease /\ [][NextDisease]_vars

(***************************************************************************)
(* Vocabulary of the properties                                            *)
(***************************************************************************)
\* every entry of every row of m satisfies P
AllEntries(m, P(_)) == \A r \in 1..Len(m) : \A a \in 1..Len(m[r]) : P(m[r][a])
IsZero(x) == x = RZero
IsRate(x) == RLe(RZero, x) /\ RLe(x, ROne)
NonNeg(x) == RLe(RZero, x)

\* the arrays handed to total_deaths agree on the number of age groups
AgesAgree ==
    /\ \A r \in 1..Len(td_mort) : Len(td_mort[r]) = Len(pop_dist)
    /\ \A r \in 1..Len(td_fert) : Len(td_fert[r]) = Len(pop_dist)
    /\ \A r \in 1..Len(td_imm) : Len(td_imm[r]) = Len(pop_dist)
\* the four schedules handed to total_deaths all store L rows
StoredLength(L) ==
    /\ Len(td_mort) = L
    /\ Len(td_fert) = L
    /\ Len(td_infmort) = L
    /\ Len(td_imm) = L
\* the inputs of the running total_deaths call break the data model
Malformed ==
    \/ ~AgesAgree
    \/ \E a \in 1..Len(pop_dist) : ~NonNeg(pop_dist[a])
    \/ ~AllEntries(td_mort, IsRate)
    \/ \E r \in 1..Len(td_infmort) : ~IsRate(td_infmort[r])
\* the row a schedule of L stored rows supplies for year yy under tail-hold
HeldRow(L, yy) == IF yy < L THEN yy ELSE L - 1

(***************************************************************************)
(* C1.  For every horizon H >= 1 and schedules of stored length L with     *)
(* 1 <= L <= H, total_deaths returns a death matrix of exactly H rows, row *)
(* y written by the recursion for year y: the call never raises, and on    *)
(* return row y is pop_y * mort_row(y).                                    *)
(***************************************************************************)
C1_ReturnsHorizonRows ==
    (~Malformed /\ StoredLength(Len(td_mort)) /\ Len(td_mort) <= num_years) =>
        /\ pc # "raised"
        /\ pc = "returned" =>
            /\ Len(deaths) = num_years
            /\ \A yy \in 0..(num_years - 1) :
                deaths[yy + 1] =
                    DeathsRow(pops[yy + 1], Row(td_mort, HeldRow(Len(td_mort), yy)))

(***************************************************************************)
(* C2.  With L stored rows and horizon H > L, every year y < L is computed *)
(* in the PHASED regime from row y and every year y >= L in the STEADY     *)
(* regime from row L-1: the regime changes once, on entering year L, and   *)
(* never back; a call that returns has computed all H years this way.      *)
(***************************************************************************)
C2_TwoRegimes ==
    (StoredLength(Len(td_mort)) /\ Len(td_mort) < num_years) =>
        /\ \A k \in 1..Len(used) :
            LET row == HeldRow(Len(td_mort), k - 1) IN
            used[k] = [regime |-> IF k - 1 < Len(td_mort) THEN "PHASED" ELSE "STEADY",
                       mort |-> row, fert |-> row, infmort |-> row, imm |-> row]
        /\ pc = "returned" => Len(used) = num_years

\* a returned call whose two stored rows differ, with a phased and a held year
C2_Witness ==
    /\ pc = "returned"
    /\ StoredLength(2)
    /\ num_years = 3
    /\ td_mort[1] # td_mort[2]
    /\ used[2].regime = "PHASED"
    /\ used[3].regime = "STEADY"
    /\ deaths[3] = DeathsRow(pops[3], td_mort[2])
    /\ deaths[3] # DeathsRow(pops[3], td_mort[1])

(***************************************************************************)
(* C8.  Zero mortality and zero immigration: the claim as stated, total    *)
(* population grows by exactly the births in every step,                   *)
(* sum(pop_{y+1}) = sum(pop_y) + newborns.                                 *)
(***************************************************************************)
\* the births of the k-th computed year, from the rows that year read
C8_Births(k) ==
    RMul(VSum(VMul(pops[k], td_fert[used[k].fert + 1])),
         RSub(ROne, td_infmort[used[k].infmort + 1]))
C8_ZeroRates == AllEntries(td_mort, IsZero) /\ AllEntries(td_imm, IsZero)

C9_MalformedFailsFast ==
    Malformed =>
        /\ pc # "returned"
        /\ Len(used) = 0
        /\ \A r \in 1..Len(deaths) : \A a \in 1..Len(deaths[r]) : IsZero(deaths[r][a])

(***************************************************************************)
(* C10.  For any number of age groups, one step of total_deaths completes  *)
(* and sets deaths[y][a] = pop_y[a] * mort[a], pop_{y+1}[a+1] =            *)
(* pop_y[a] * (1 - mort[a]) + pop_y[a] * imm[a] for every age but the      *)
(* last, and pop_{y+1}[0] = (sum_a pop_y[a] * fert[a]) * (1 - infmort).    *)
(***************************************************************************)
C10_StepFormula ==
    (~Malformed /\ StoredLength(Len(td_mort)) /\ Len(td_mort) <= num_years) =>
        /\ pc # "raised"
        /\ \A k \in 1..Len(used) :
            LET p == pops[k]
                mrow == td_mort[used[k].mort + 1]
                irow == td_imm[used[k].imm + 1]
            IN
            /\ \A a \in 1..Len(p) : deaths[k][a] = RMul(p[a], mrow[a])
            /\ \A a \in 1..(Len(p) - 1) :
                pops[k + 1][a + 1] =
                    RAdd(RMul(p[a], RSub(ROne, mrow[a])), RMul(p[a], irow[a]))
            /\ pops[k + 1][1] = C8_Births(k)

(***************************************************************************)
(* Vocabulary of the disease_pop properties                                *)
(***************************************************************************)
\* disease_pop has its scale factor
Calibrated == dpc \in {"phase", "projecting", "returned", "raised"}
\* the phase-in rows written so far
RowsBuilt == IF dpc = "phase" THEN i ELSE IF Calibrated THEN PhaseYears ELSE 0
\* sum_a pop[a] * min(mort[a] * (1 + sf), 1) - sum_a pop[a] * mort[a] on the
\* caller's year-0 population and mortality
ExcessAt(sf) ==
    RSub(VSum([a \in 1..Len(pop_dist) |->
                RMul(pop_dist[a],
                     RMin(RMul(mort_rates[1][a], RAdd(ROne, sf)), ROne))]),
         VSum([a \in 1..Len(pop_dist) |-> RMul(pop_dist[a], mort_rates[1][a])]))
\* the target can be met by some scale factor
Attainable == RLe(excess_deaths, MaxExcess(pop_dist, mort_rates[1]))
\* no mortality rate reaches the ceiling under the full shock
BelowCeiling ==
    \A a \in 1..Len(pop_dist) :
        RLt(RMul(mort_rates[1][a], RAdd(ROne, scale_factor)), ROne)
\* the running total_deaths call has written its row for year 0
RowZeroWritten ==
    \/ pc \in {"loop", "returned"} /\ y >= 1
    \/ pc = "raised" /\ (y >= 1 \/ raised.line > 276)

(***************************************************************************)
(* C3.  The claim as stated: for a target attainable with no rate at the   *)
(* ceiling, year 0 of the shocked death matrix exceeds year 0 of the       *)
(* baseline death matrix by excess_deaths in total.                        *)
(***************************************************************************)
C3_FirstYearMatchesTarget ==
    (dpc = "returned" /\ base_deaths # <<>> /\ Attainable /\ BelowCeiling) =>
        RSub(VSum(shock_deaths[1]), VSum(base_deaths[1])) = excess_deaths

(***************************************************************************)
(* C3 as amended.  For a target attainable with no rate at the ceiling,    *)
(* the full shock on the initial population matches the target,            *)
(* sum pop*min(mort*(1+s),1) - sum pop*mort = excess_deaths, while year 0  *)
(* of the shocked projection is written from the first phase-in row and    *)
(* exceeds the baseline's year 0 (pop * mort) by excess_deaths / 5.        *)
(***************************************************************************)
C3_FullShockMatchesTarget ==
    (Calibrated /\ Attainable /\ BelowCeiling) =>
        /\ ExcessAt(scale_factor) = excess_deaths
        /\ (dpc = "projecting" /\ RowZeroWritten) =>
            RSub(VSum(deaths[1]), VSum(DeathsRow(pop_dist, mort_rates[1])))
                = RMul(excess_deaths, R(1, PhaseYears))
        /\ (dpc = "returned" /\ base_deaths # <<>>) =>
            RSub(VSum(shock_deaths[1]), VSum(base_deaths[1]))
                = RMul(excess_deaths, R(1, PhaseYears))

\* both projections returned for a positive target met below the ceiling
C3_Witness ==
    /\ dpc = "returned"
    /\ base_deaths # <<>>
    /\ Attainable
    /\ BelowCeiling
    /\ RLt(RZero, excess_deaths)
    /\ RLt(RZero, scale_factor)

(***************************************************************************)
(* C4.  Row i (0 <= i < N, N = 5) of the mortality matrix built by         *)
(* disease_pop is min(mort[a] * (1 + s*(i+1)/N), 1) at every age; the      *)
(* fraction (i+1)/N rises strictly with i and is 1 at i = N-1, so the last *)
(* row is min(mort[a] * (1 + s), 1).                                       *)
(***************************************************************************)
C4_PhaseRows ==
    Calibrated =>
        /\ \A idx \in 0..(RowsBuilt - 1) :
            /\ \A a \in 1..Len(mort_rates[1]) :
                alt_mort_rates[idx + 1][a] =
                    RMin(RMul(mort_rates[1][a],
                              RAdd(ROne, RMul(scale_factor, R(idx + 1, PhaseYears)))),
                         ROne)
            /\ idx + 1 < PhaseYears => RLt(R(idx + 1, PhaseYears), R(idx + 2, PhaseYears))
        /\ R(PhaseYears, PhaseYears) = ROne
        /\ RowsBuilt = PhaseYears =>
            \A a \in 1..Len(mort_rates[1]) :
                alt_mort_rates[PhaseYears][a] =
                    RMin(RMul(mort_rates[1][a], RAdd(ROne, scale_factor)), ROne)

\* all five rows built under a positive scale factor: the first row is
\* shocked but below the ceiling, the last row is at it
C4_Witness ==
    /\ RowsBuilt = PhaseYears
    /\ RLt(RZero, scale_factor)
    /\ \E a \in 1..Len(mort_rates[1]) :
        /\ RLt(mort_rates[1][a], alt_mort_rates[1][a])
        /\ RLt(alt_mort_rates[1][a], alt_mort_rates[2][a])
        /\ alt_mort_rates[PhaseYears][a] = ROne
        /\ RLt(ROne, RMul(mort_rates[1][a], RAdd(ROne, scale_factor)))

(***************************************************************************)
(* C5.  For valid inputs every entry of the mortality matrix and of the    *)
(* infant-mortality vector produced by disease_pop is at most 1.           *)
(***************************************************************************)
AtMostOne(x) == RLe(x, ROne)

C5_RateCeiling ==
    /\ AllEntries(alt_mort_rates, AtMostOne)
    /\ \A r \in 1..Len(dp_infmort_rates) : AtMostOne(dp_infmort_rates[r])

\* a produced rate sits at the ceiling because the scaled rate is above it
C5_Witness ==
    /\ RowsBuilt = PhaseYears
    /\ \E r \in 1..PhaseYears : \E a \in 1..Len(mort_rates[1]) :
        /\ alt_mort_rates[r][a] = ROne
        /\ RLt(ROne, RMul(mort_rates[1][a], PhaseFactor(scale_factor, r - 1)))

(***************************************************************************)
(* C6.  For an attainable target the scale factor that minimises           *)
(* excess_death_dist satisfies sum pop*min(mort*(1+s),1) - sum pop*mort =  *)
(* excess_deaths, with objective value 0; at s = 0 the predicted excess is *)
(* 0 and the objective is excess_deaths squared.                           *)
(***************************************************************************)
C6_CalibrationHitsTarget ==
    Calibrated =>
        /\ Attainable =>
            /\ ExcessAt(scale_factor) = excess_deaths
            /\ ExcessDeathDist(scale_factor, pop_dist, mort_rates[1], excess_deaths) = RZero
        /\ ExcessAt(RZero) = RZero
        /\ ExcessDeathDist(RZero, pop_dist, mort_rates[1], excess_deaths)
                = RMul(excess_deaths, excess_deaths)

\* the scenario of the specification scaled to the model's grid: pop = [2, 2],
\* mort = [1/4, 1/2], target 3/4, met at s = 1/2
C6_Witness ==
    /\ Calibrated
    /\ pop_dist = <<RInt(2), RInt(2)>>
    /\ mort_rates[1] = <<R(1, 4), R(1, 2)>>
    /\ excess_deaths = R(3, 4)
    /\ scale_factor = R(1, 2)

(***************************************************************************)
(* C7.  The claim as stated: for fixed pop and mort and any two targets    *)
(* 0 <= e1 < e2, the minimising scale factor for e2 is greater than the    *)
(* one for e1.                                                             *)
(***************************************************************************)
\* the minimisation for excess_deaths has just returned scale_factor
JustCalibrated == dpc = "phase" /\ i = 0
\* the targets above the current one that the model can calibrate exactly
HigherTargets ==
    {e \in TargetValues :
        RLt(excess_deaths, e) /\ ExactOnGrid(pop_dist, mort_rates[1], e)}
\* those of them that some scale factor meets
HigherAttainable ==
    {e \in TargetValues :
        /\ RLt(excess_deaths, e)
        /\ RLe(e, MaxExcess(pop_dist, mort_rates[1]))
        /\ ExactOnGrid(pop_dist, mort_rates[1], e)}

C7_MonotoneInTarget ==
    JustCalibrated =>
        \A e2 \in HigherTargets :
            \A s2 \in Minimizers(pop_dist, mort_rates[1], e2) :
                RLt(scale_factor, s2)

(***************************************************************************)
(* C7 as amended.  For fixed pop and mort and two attainable targets       *)
(* 0 <= e1 < e2 <= sum over ages with mort > 0 of pop*(1 - mort), the      *)
(* minimising scale factor for e2 is greater than the one for e1.          *)
(***************************************************************************)
C7_MonotoneWhileAttainable ==
    JustCalibrated =>
        \A e2 \in HigherAttainable :
            \A s2 \in Minimizers(pop_dist, mort_rates[1], e2) :
                RLt(scale_factor, s2)

\* a positive target calibrated, with a higher attainable target to compare
C7_Witness ==
    /\ JustCalibrated
    /\ RLt(RZero, excess_deaths)
    /\ HigherAttainable # {}

(***************************************************************************)
(* C11.  Every infant-mortality row i that disease_pop has built is        *)
(* min(infmort_baseline * (1 + s*(i+1)/N), 1), where infmort_baseline is   *)
(* the caller's year-0 infant-mortality rate.                              *)
(***************************************************************************)
C11_InfmortPhaseIn ==
    Calibrated =>
        \A idx \in 0..(RowsBuilt - 1) :
            dp_infmort_rates[idx + 1] =
                RMin(RMul(infmort_rates[1],
                          RAdd(ROne, RMul(scale_factor, R(idx + 1, PhaseYears)))),
                     ROne)

(***************************************************************************)
(* C12.  The schedules disease_pop hands to total_deaths and to the        *)
(* population constructor have N fertility rows and N immigration rows,    *)
(* every one equal to the caller's year-0 fertility and immigration        *)
(* profile, whatever the scale factor.                                     *)
(***************************************************************************)
\* disease_pop has built its schedules and called total_deaths
Handed == dpc \in {"projecting", "returned", "raised"}

C12_MortalityOnly ==
    Handed =>
        /\ Len(td_fert) = PhaseYears
        /\ Len(td_imm) = PhaseYears
        /\ \A r \in 1..PhaseYears :
            /\ td_fert[r] = fert_rates[1]
            /\ td_imm[r] = imm_rates[1]
        /\ dp_fert_rates = td_fert
        /\ dp_imm_rates = td_imm

\* a positive shock, baseline profiles that change after year 0, and a
\* projection year computed from the tiled rows
C12_Witness ==
    /\ Handed
    /\ RLt(RZero, scale_factor)
    /\ fert_rates[Len(fert_rates)] # fert_rates[1]
    /\ imm_rates[Len(imm_rates)] # imm_rates[1]
    /\ Len(used) >= PhaseYears

(***************************************************************************)
(* C13.  The claim as stated: when excess_deaths exceeds                   *)
(* sum_a pop[a]*(1 - mort[a]), the minimisation still returns, the         *)
(* objective at the returned scale factor is strictly positive, and        *)
(* min(mort[a]*(1+s), 1) = 1 for every age a with mort[a] > 0.             *)
(***************************************************************************)
\* the target is above what every rate at 1.0 would add
OutOfReach ==
    RLt(VSum([a \in 1..Len(pop_dist) |->
                RMul(pop_dist[a], RSub(ROne, mort_rates[1][a]))]),
        excess_deaths)
\* the shocked rate of age a under the returned scale factor is at the ceiling
Saturated(a) ==
    RMin(RMul(mort_rates[1][a], RAdd(ROne, scale_factor)), ROne) = ROne

C13_SaturatesEveryRate ==
    (Calibrated /\ OutOfReach) =>
        /\ RLt(RZero, ExcessDeathDist(scale_factor, pop_dist, mort_rates[1],
                                      excess_deaths))
        /\ \A a \in 1..Len(pop_dist) :
            RLt(RZero, mort_rates[1][a]) => Saturated(a)

(***************************************************************************)
(* C13 as amended.  When excess_deaths exceeds sum_a pop[a]*(1 - mort[a]), *)
(* the minimisation still returns, the objective at the returned scale     *)
(* factor is strictly positive, and min(mort[a]*(1+s), 1) = 1 for every    *)
(* age a that has people and a positive rate (pop[a] > 0 and mort[a] > 0). *)
(***************************************************************************)
C13_SaturatesEveryCountedRate ==
    (Calibrated /\ OutOfReach) =>
        /\ RLt(RZero, ExcessDeathDist(scale_factor, pop_dist, mort_rates[1],
                                      excess_deaths))
        /\ \A a \in 1..Len(pop_dist) :
            (RLt(RZero, pop_dist[a]) /\ RLt(RZero, mort_rates[1][a])) => Saturated(a)

\* a target out of reach, and a rate strictly inside (0, 1) that the
\* returned scale factor has taken to the ceiling
C13_Witness ==
    /\ Calibrated
    /\ OutOfReach
    /\ \E a \in 1..Len(pop_dist) :
        /\ RLt(RZero, pop_dist[a])
        /\ RLt(RZero, mort_rates[1][a])
        /\ RLt(mort_rates[1][a], ROne)
        /\ Saturated(a)

(***************************************************************************)
(* C14.  The four schedules handed to total_deaths may store different     *)
(* numbers of rows (none more than the horizon), and each is looked up by  *)
(* its own length: no year fails on a row index, and every computed year y *)
(* read from each schedule its row y if it stores one, else its last row.  *)
(***************************************************************************)
\* no schedule stores more rows than the horizon
WithinHorizon ==
    /\ Len(td_mort) <= num_years
    /\ Len(td_fert) <= num_years
    /\ Len(td_infmort) <= num_years
    /\ Len(td_imm) <= num_years

C14_OwnLengthLookup ==
    (~Malformed /\ WithinHorizon) =>
        /\ raised.exc # "IndexError"
        /\ \A k \in 1..Len(used) :
            /\ used[k].mort = HeldRow(Len(td_mort), k - 1)
            /\ used[k].fert = HeldRow(Len(td_fert), k - 1)
            /\ used[k].infmort = HeldRow(Len(td_infmort), k - 1)
            /\ used[k].imm = HeldRow(Len(td_imm), k - 1)

C16_InputsUnchanged ==
    [][/\ pop_dist' = pop_dist
       /\ fert_rates' = fert_rates
       /\ mort_rates' = mort_rates
       /\ infmort_rates' = infmort_rates
       /\ imm_rates' = imm_rates
       /\ (dpc' = "returned" /\ dpc = "projecting") =>
            shock_deaths'[1] =
                [a \in 1..Len(pop_dist) |->
                    RMul(pop_dist[a],
                         RMin(RMul(mort_rates[1][a],
                                   RAdd(ROne, RMul(scale_factor, R(1, PhaseYears)))),
                              ROne))]]_vars

\* a scenario has come back with a death matrix that differs from the one
\* the scenario before it returned
C16_Witness ==
    /\ dpc = "projecting"
    /\ pc = "returned"
    /\ shock_deaths # <<>>
    /\ deaths # shock_deaths
    /\ RLt(RZero, scale_factor)

(***************************************************************************)
(* C17.  When the schedules store more rows than the horizon               *)
(* (L > num_years), total_deaths does not fail on a row index, never holds *)
(* a death row with index >= num_years, and returns a matrix of exactly    *)
(* num_years rows, row y computed from schedule row y.                     *)
(***************************************************************************)
C17_LongSchedule ==
    (~Malformed /\ StoredLength(Len(td_mort)) /\ Len(td_mort) > num_years) =>
        /\ raised.exc # "IndexError"
        /\ Len(deaths) <= num_years
        /\ pc = "returned" =>
            /\ Len(deaths) = num_years
            /\ Len(used) = num_years
            /\ \A k \in 1..Len(used) : used[k].mort = k - 1

====
